---- MODULE Spec2Model ----
(***************************************************************************)
(* Model of the concept-analysis WebSocket server (src/WebSocket.py):      *)
(* AIConceptAnalysisServer with its response cache, its set of active      *)
(* connections, the per-connection handler handle_client and the pure      *)
(* scoring and feedback functions.                                         *)
(*                                                                         *)
(* Text is a sequence of one-character strings.  Scores are exact          *)
(* fixed-point numbers in tenths of a point (1000 stands for 100.0): every *)
(* value of (k*0.6 + min(w/50,1)*0.4)*100 is a multiple of 0.1.  The float *)
(* the code returns for it, with the rounding of each operation, is        *)
(* modelled next to it (calculate_score_float).                            *)
(***************************************************************************)
EXTENDS Integers, Sequences, FiniteSets, TLC

(***************************************************************************)
(* Text: str.lower, the `in` substring test and str.split                  *)
(***************************************************************************)
Upper == <<"A","B","C","D","E","F","G","H","I","J","K","L","M",
           "N","O","P","Q","R","S","T","U","V","W","X","Y","Z">>
Lower == <<"a","b","c","d","e","f","g","h","i","j","k","l","m",
           "n","o","p","q","r","s","t","u","v","w","x","y","z">>

\* str.lower on one character
lower_char(ch) ==
    IF \E i \in 1..Len(Upper) : Upper[i] = ch
    THEN Lower[CHOOSE i \in 1..Len(Upper) : Upper[i] = ch]
    ELSE ch

\* str.lower
lower(text) == [i \in 1..Len(text) |-> lower_char(text[i])]

\* the characters str.split() separates on
Whitespace == {" "}

\* needle in haystack (substring test of two str)
contains(haystack, needle) ==
    \E i \in 0..(Len(haystack) - Len(needle)) :
        \A j \in 1..Len(needle) : haystack[i + j] = needle[j]

\* len(text.split()): the number of maximal runs of non-whitespace characters
word_count(text) ==
    Cardinality({i \in 1..Len(text) :
                    /\ text[i] \notin Whitespace
                    /\ (i = 1 \/ text[i - 1] \in Whitespace)})

Min(a, b) == IF a <= b THEN a ELSE b
Max(a, b) == IF a >= b THEN a ELSE b

(***************************************************************************)
(* _calculate_score                                                        *)
(***************************************************************************)
KwAlgorithm      == <<"a","l","g","o","r","i","t","h","m">>
KwTraining       == <<"t","r","a","i","n","i","n","g">>
KwModel          == <<"m","o","d","e","l">>
KwData           == <<"d","a","t","a">>
KwNeuron         == <<"n","e","u","r","o","n">>
KwLayer          == <<"l","a","y","e","r">>
KwActivation     == <<"a","c","t","i","v","a","t","i","o","n">>
KwWeights        == <<"w","e","i","g","h","t","s">>
KwBias           == <<"b","i","a","s">>
KwFairness       == <<"f","a","i","r","n","e","s","s">>
KwTransparency   == <<"t","r","a","n","s","p","a","r","e","n","c","y">>
KwAccountability == <<"a","c","c","o","u","n","t","a","b","i","l","i","t","y">>

\* keywords.get(concept, [])
keywords(concept) ==
    CASE concept = "machine_learning" -> <<KwAlgorithm, KwTraining, KwModel, KwData>>
      [] concept = "neural_networks"  -> <<KwNeuron, KwLayer, KwActivation, KwWeights>>
      [] concept = "ai_ethics"        -> <<KwBias, KwFairness, KwTransparency, KwAccountability>>
      [] OTHER                        -> <<>>

\* the weights 0.6 and 0.4 in tenths, the length normaliser and the factor 100
KeywordWeight == 6
LengthWeight  == 4
LengthNorm    == 50
PercentFactor == 100
\* the clamp [0, 100], in tenths of a point
ScoreFloor    == 0
ScoreCeiling  == 1000

\* a plausible slip: the keywords looked up in the response as it was typed
keyword_score_case_sensitive(response, concept) ==
    LET concept_keywords == keywords(concept)
    IN  Cardinality({i \in 1..Len(concept_keywords) :
                        contains(response, lower(concept_keywords[i]))})

\* sum(1 for keyword in concept_keywords if keyword.lower() in response.lower())
keyword_score(response, concept) ==
    LET concept_keywords == keywords(concept)
        lowered == lower(response)
    IN  Cardinality({i \in 1..Len(concept_keywords) :
                        contains(lowered, lower(concept_keywords[i]))})

\* a plausible slip: the keyword count taken as a fraction of the keywords, so
\* that the keyword term stops at 60
weighted_sum_fraction(response, concept) ==
    (((keyword_score(response, concept) * KeywordWeight * LengthNorm)
            \div Max(Len(keywords(concept)), 1)
        + Min(word_count(response), LengthNorm) * LengthWeight) * PercentFactor)
    \div LengthNorm

\* (keyword_score * 0.6 + length_score * 0.4) * 100 before the clamp, in tenths,
\* with length_score = min(len(response.split()) / 50, 1)
weighted_sum(response, concept) ==
    ((keyword_score(response, concept) * KeywordWeight * LengthNorm
        + Min(word_count(response), LengthNorm) * LengthWeight) * PercentFactor)
    \div LengthNorm

\* a plausible slip: the weighted sum returned without the clamp
calculate_score_unclamped(response, concept) == weighted_sum(response, concept)

\* _calculate_score: min(max(total_score, 0), 100)
calculate_score(response, concept) ==
    Min(Max(weighted_sum(response, concept), ScoreFloor), ScoreCeiling)

(***************************************************************************)
(* _generate_feedback                                                      *)
(***************************************************************************)
feedback_templates ==
    [low    |-> <<"Your response shows initial understanding, but could be more comprehensive.",
                  "Try to include more specific details related to the concept.">>,
     medium |-> <<"Good start! Consider diving deeper into the technical aspects.",
                  "You're on the right track. Expand on key principles.">>,
     high   |-> <<"Excellent analysis demonstrating deep conceptual understanding!",
                  "Impressive response that covers multiple important aspects.">>]

\* the thresholds 40 and 75, in tenths of a point
MediumThreshold == 400
HighThreshold   == 750

\* a plausible slip: the thresholds themselves put in the lower category
category_inclusive(score) ==
    IF score <= MediumThreshold THEN "low"
    ELSE IF score <= HighThreshold THEN "medium"
    ELSE "high"

\* the if/elif/else that picks the category
category(score) ==
    IF score < MediumThreshold THEN "low"
    ELSE IF score < HighThreshold THEN "medium"
    ELSE "high"

\* _generate_feedback, given h = hash(response); sequences are 1-based
generate_feedback(h, score) ==
    feedback_templates[category(score)]
        [(h % Len(feedback_templates[category(score)])) + 1]

(***************************************************************************)
(* JSON values and inbound frames                                          *)
(*                                                                         *)
(* A decoded field value is [t, s]: a str with its characters, a number    *)
(* with its digits, or null.  A frame is [kind, fields, response,          *)
(* concept]: kind says what json.loads makes of the body, fields which of  *)
(* the two keys the object carries.  Concepts are str, written as TLA+     *)
(* strings.                                                                *)
(***************************************************************************)
Str(chars) == [t |-> "str", s |-> chars]
Num(digits) == [t |-> "num", s |-> digits]
EmptyStr == Str(<<>>)

\* the outcome of json.loads(message): the decoded value, or the exception raised
\*   malformed : text that is no JSON document          -> json.JSONDecodeError
\*   bad_utf8  : binary frame that is not valid UTF-8   -> UnicodeDecodeError
\*   too_deep  : an unclosed run of brackets deeper than the recursion limit
\*                                                      -> RecursionError
\*   array     : a well-formed document that is a list  -> a list
\*   string, number, null : a well-formed scalar        -> a str, an int, None
\*   object    : a well-formed document that is an object -> a dict
json_loads(message) ==
    CASE message.kind = "malformed" -> [raised |-> "JSONDecodeError", type |-> "none"]
      [] message.kind = "bad_utf8"  -> [raised |-> "UnicodeDecodeError", type |-> "none"]
      [] message.kind = "too_deep"  -> [raised |-> "RecursionError", type |-> "none"]
      [] message.kind = "array"     -> [raised |-> "none", type |-> "list"]
      [] message.kind = "string"    -> [raised |-> "none", type |-> "str"]
      [] message.kind = "number"    -> [raised |-> "none", type |-> "int"]
      [] message.kind = "null"      -> [raised |-> "none", type |-> "NoneType"]
      [] message.kind = "object"    -> [raised |-> "none", type |-> "dict"]

\* data.get('response', '') and data.get('concept', '')
get_response(message) ==
    IF "response" \in message.fields THEN message.response ELSE EmptyStr
get_concept(message) ==
    IF "concept" \in message.fields THEN message.concept ELSE ""

\* bool(value): `not response` is ~truthy(response)
truthy(value) ==
    CASE value.t = "str"  -> Len(value.s) > 0
      [] value.t = "num"  -> value.s # <<"0">>
      [] value.t = "null" -> FALSE

(***************************************************************************)
(* The four error payloads and the success payload sent by handle_client   *)
(***************************************************************************)
NoResult == [concept |-> "", total_score |-> 0, feedback |-> "", unique_id |-> 0]
ErrorPayload(error, details) ==
    [error |-> error, details |-> details, result |-> NoResult]
InvalidInput ==
    ErrorPayload("Invalid input", "Response and concept are required")
JsonParsingError == ErrorPayload("JSON parsing error", "")
AnalysisTimeout ==
    ErrorPayload("Analysis timeout", "Response took too long to process")
InternalServerError == ErrorPayload("Internal server error", "")
Success(result) == [error |-> "", details |-> "", result |-> result]

(***************************************************************************)
(* State                                                                   *)
(***************************************************************************)
VARIABLES
    response_cache,      \* self.response_cache: cache key -> result
    active_connections,  \* self.active_connections
    minted,              \* how many identifiers uuid.uuid4() has produced
    hash_seed,           \* this process's hash(): value -> integer
    state,               \* per connection: where its handle_client task stands
    message,             \* per connection: the loop variable `message`
    outcome,             \* per connection: what handling `message` came to: a result,
                         \* a failed validation or the exception being handled
    remove_failed,       \* connections whose active_connections.remove raised KeyError
    inbound,             \* per connection: how many frames the client has sent
    taken,               \* per connection: how many of them the loop has consumed
    outbound,            \* per connection: the replies sent, in order, each with the
                         \* frame it answers and that frame's arrival number
    peer_closed,         \* per connection: the transport is closed
    probe                \* a direct call of a pure function: its arguments and result

vars == <<response_cache, active_connections, minted, hash_seed, state, message,
          outcome, remove_failed, inbound, taken, outbound, peer_closed, probe>>

server_vars == <<response_cache, active_connections, minted, hash_seed, state,
                 message, outcome, remove_failed, inbound, taken, outbound,
                 peer_closed>>

Conns == {"c1", "c2"}

\* "The algorithm uses training data to build a model"
TextAlgorithm ==
    <<"T","h","e"," ","a","l","g","o","r","i","t","h","m"," ","u","s","e","s"," ",
      "t","r","a","i","n","i","n","g"," ","d","a","t","a"," ","t","o"," ",
      "b","u","i","l","d"," ","a"," ","m","o","d","e","l">>
\* "ok"
TextOk == <<"o","k">>

NoFields == {}
BothFields == {"response", "concept"}
Frame(kind, fields, response, concept) ==
    [kind |-> kind, fields |-> fields, response |-> response, concept |-> concept]
Request(response, concept) == Frame("object", BothFields, response, concept)
NoMessage == Frame("none", NoFields, EmptyStr, "")

\* the frames a client sends in the model
Frames ==
    { Frame("malformed", NoFields, EmptyStr, ""),
      Frame("too_deep", NoFields, EmptyStr, ""),
      Request(Str(TextAlgorithm), "machine_learning"),
      Request(Str(TextOk), "machine_learning"),
      Request(EmptyStr, "machine_learning"),
      Frame("object", {"response"}, Str(TextOk), ""),
      Request(Num(<<"1">>), "machine_learning") }

\* the texts hash() is applied to, and the range its results are drawn from
HashDomain == {TextAlgorithm, TextOk}
HashValues == {0, 1}

\* int(digits)
Digits == <<"0","1","2","3","4","5","6","7","8","9">>
RECURSIVE int_of(_)
int_of(digits) ==
    IF digits = <<>> THEN 0
    ELSE 10 * int_of(SubSeq(digits, 1, Len(digits) - 1))
         + (CHOOSE d \in 0..9 : Digits[d + 1] = digits[Len(digits)])

\* hash(value): a small int hashes to itself, a str to a value fixed by the
\* process's hash seed
py_hash(seed, value) ==
    IF value.t = "num" THEN int_of(value.s) ELSE seed[value.s]

\* clients send at most MaxFrames frames in all
MaxFrames == 2

RECURSIVE Sum(_, _)
Sum(f, S) ==
    IF S = {} THEN 0
    ELSE LET c == CHOOSE x \in S : TRUE IN f[c] + Sum(f, S \ {c})

(***************************************************************************)
(* analyze_response                                                        *)
(***************************************************************************)
EmptyCache == [k \in {} |-> NoResult]

\* a plausible variant: the key holds the response itself in place of its hash
cache_key_by_text(seed, response, concept) ==
    [concept |-> concept, hash |-> response]

\* a plausible slip: the key formed from the hash alone
format_key_hash_only(concept, h) == ToString(h)

\* f"{concept}_{h}": the concept, "_" and the hash in decimal, as one string
format_key(concept, h) == concept \o "_" \o ToString(h)

\* cache_key = f"{concept}_{hash(response)}"
cache_key(seed, response, concept) == format_key(concept, py_hash(seed, response))

\* the outcome of one call: the exception raised (or "none"), the value returned,
\* and the cache and identifier count it leaves.  The body has no await, so the
\* call runs without interleaving.
Returned(result, cache, count) ==
    [raised |-> "none", result |-> result, cache |-> cache, minted |-> count]
\* a plausible slip: a call that fails leaves the cache empty
Raised_cache_cleared(exception, cache, count) ==
    [raised |-> exception, result |-> NoResult, cache |-> EmptyCache, minted |-> count]

Raised(exception, cache, count) ==
    [raised |-> exception, result |-> NoResult, cache |-> cache, minted |-> count]

\* a plausible slip: no cache check, every call computes and stores anew
analyze_response_nocheck(cache, seed, count, response, concept) ==
    LET key    == cache_key(seed, response, concept)
        score  == calculate_score(response.s, concept)
        result == [concept     |-> concept,
                   total_score |-> score,
                   feedback    |-> generate_feedback(py_hash(seed, response), score),
                   unique_id   |-> count + 1]
    IN  IF response.t # "str"
        THEN Raised("AttributeError", cache, count)
        ELSE Returned(result,
                      [k \in DOMAIN cache \cup {key} |->
                          IF k = key THEN result ELSE cache[k]],
                      count + 1)

analyze_response(cache, seed, count, response, concept) ==
    LET key    == cache_key(seed, response, concept)
        score  == calculate_score(response.s, concept)
        result == [concept     |-> concept,
                   total_score |-> score,
                   feedback    |-> generate_feedback(py_hash(seed, response), score),
                   unique_id   |-> count + 1]
    IN  IF key \in DOMAIN cache
        THEN Returned(cache[key], cache, count)
        \* response.lower() / response.split() on a value that is no str
        ELSE IF response.t # "str"
        THEN Raised("AttributeError", cache, count)
        ELSE Returned(result,
                      [k \in DOMAIN cache \cup {key} |->
                          IF k = key THEN result ELSE cache[k]],
                      count + 1)

(***************************************************************************)
(* handle_client                                                           *)
(*                                                                         *)
(* A handler task is Unconnected (not started), Open (suspended in         *)
(* `async for`, awaiting the next frame), Analyzing (suspended in          *)
(* asyncio.wait_for), Responding (suspended in websocket.send) or Closed   *)
(* (finished).                                                             *)
(***************************************************************************)
Running == {"Open", "Analyzing", "Responding"}

\* connections are named in the order the server accepts them
accepted_before(d, c) == d = "c1" /\ c = "c2"

\* a plausible slip: the next frame is taken while a reply is still to be sent
can_receive_pipelined(c) == state[c] \in {"Open", "Responding"}

\* the loop may take the next frame: the body of `async for` has run to its end
can_receive(c) == state[c] = "Open"

\* a plausible slip: only the response is validated
decode_and_validate_response_only(msg) ==
    LET data == json_loads(msg) IN
    IF data.raised # "none" THEN data.raised
    ELSE IF data.type # "dict" THEN "AttributeError"
    ELSE IF ~truthy(get_response(msg)) THEN "invalid"
    ELSE "analyze"

\* lines 108-113: what becomes of a frame before the analysis: the exception
\* raised, "invalid" when the validation fails, "analyze" when it passes
decode_and_validate(msg) ==
    LET data == json_loads(msg) IN
    IF data.raised # "none" THEN data.raised
    \* data.get on a list, a str, an int or None raises AttributeError
    ELSE IF data.type # "dict" THEN "AttributeError"
    ELSE IF ~truthy(get_response(msg)) \/ get_concept(msg) = "" THEN "invalid"
    ELSE "analyze"

\* the exceptions of the model; each is a subclass of Exception
Exceptions == {"JSONDecodeError", "UnicodeDecodeError", "RecursionError",
               "AttributeError", "TimeoutError"}

\* a plausible slip: no `except Exception` clause
caught_narrow(exception) == exception \in {"JSONDecodeError", "TimeoutError"}

\* one of the three except clauses of the inner try matches (lines 129-140)
caught(exception) == exception \in Exceptions

\* a plausible slip: `except Exception` placed before `except asyncio.TimeoutError`
except_clause_shadowed(exception) ==
    CASE exception = "JSONDecodeError" -> JsonParsingError
      [] OTHER                         -> InternalServerError

\* the payload the matching except clause sends (lines 129-144)
except_clause(exception) ==
    CASE exception = "JSONDecodeError" -> JsonParsingError
      [] exception = "TimeoutError"    -> AnalysisTimeout
      [] OTHER                         -> InternalServerError

NoOutcome == [why |-> "none", result |-> NoResult]
Failed(why) == [why |-> why, result |-> NoResult]
Result(result) == [why |-> "result", result |-> result]

\* what is sent for an outcome (lines 114-117, 127, 131-133, 136-139, 142-144)
payload_of(o) ==
    CASE o.why = "result"  -> Success(o.result)
      [] o.why = "invalid" -> InvalidInput
      [] OTHER             -> except_clause(o.why)

\* a plausible slip: the handler does not register the connection
register_forgotten(active, c) == active

\* self.active_connections.add(websocket)
register(active, c) == active \cup {c}

\* a plausible slip: closing one connection clears the whole set
remove_all(active, c) == [raised |-> "none", active |-> {}]

\* self.active_connections.remove(websocket): KeyError when absent
remove(active, c) ==
    IF c \in active
    THEN [raised |-> "none", active |-> active \ {c}]
    ELSE [raised |-> "KeyError", active |-> active]

\* the handler's exit: the finally clause (lines 146-147), then the task is finished
Finish(c) ==
    LET r == remove(active_connections, c) IN
    /\ active_connections' = r.active
    /\ remove_failed' = IF r.raised = "none" THEN remove_failed
                        ELSE remove_failed \cup {c}
    /\ state' = [state EXCEPT ![c] = "Closed"]
    /\ message' = [message EXCEPT ![c] = NoMessage]
    /\ outcome' = [outcome EXCEPT ![c] = NoOutcome]

\* a plausible slip: the handler returns to the receive without sending
Respond_dropped(c, o) ==
    /\ state' = [state EXCEPT ![c] = "Open"]
    /\ outcome' = [outcome EXCEPT ![c] = NoOutcome]
    /\ UNCHANGED <<active_connections, remove_failed>>

\* the handler goes on to send what `o` calls for
Respond(c, o) ==
    /\ state' = [state EXCEPT ![c] = "Responding"]
    /\ outcome' = [outcome EXCEPT ![c] = o]
    /\ UNCHANGED <<active_connections, remove_failed>>

\* an exception raised in the try body: an except clause takes it and sends its
\* payload, or it leaves the loop
Raise(c, exception) ==
    IF caught(exception)
    THEN Respond(c, Failed(exception)) /\ UNCHANGED message
    ELSE Finish(c)

\* the server accepts a connection and handle_client starts (line 103)
Connect(c) ==
    /\ state[c] = "Unconnected"
    /\ \A d \in Conns : accepted_before(d, c) => state[d] # "Unconnected"
    /\ active_connections' = register(active_connections, c)
    /\ state' = [state EXCEPT ![c] = "Open"]
    /\ UNCHANGED <<response_cache, minted, hash_seed, message, outcome,
                   remove_failed, inbound, taken, outbound, peer_closed, probe>>

\* the client sends a frame (src/app.py: websocket.send).  Nothing reads a
\* frame before the loop takes it, so its content is drawn when it is taken.
ClientSend(c) ==
    /\ state[c] # "Unconnected"
    /\ ~peer_closed[c]
    /\ Sum(inbound, Conns) < MaxFrames
    /\ inbound' = [inbound EXCEPT ![c] = @ + 1]
    /\ UNCHANGED <<response_cache, active_connections, minted, hash_seed, state,
                   message, outcome, remove_failed, taken, outbound, peer_closed,
                   probe>>

\* the client closes the connection, or the transport breaks
ClientClose(c) ==
    /\ state[c] # "Unconnected"
    /\ ~peer_closed[c]
    /\ peer_closed' = [peer_closed EXCEPT ![c] = TRUE]
    /\ UNCHANGED <<response_cache, active_connections, minted, hash_seed, state,
                   message, outcome, remove_failed, inbound, taken, outbound, probe>>

\* `async for message in websocket` yields the next frame; it is decoded and
\* validated without suspension (lines 105-113)
Receive(c, msg) ==
    /\ can_receive(c)
    /\ taken[c] < inbound[c]
    /\ taken' = [taken EXCEPT ![c] = @ + 1]
    /\ LET d == decode_and_validate(msg) IN
       IF d = "analyze"
       THEN /\ state' = [state EXCEPT ![c] = "Analyzing"]
            /\ message' = [message EXCEPT ![c] = msg]
            /\ UNCHANGED <<outcome, active_connections, remove_failed>>
       ELSE IF d = "invalid"
       THEN /\ Respond(c, Failed("invalid"))
            /\ message' = [message EXCEPT ![c] = msg]
       ELSE IF caught(d)
       THEN /\ Respond(c, Failed(d))
            /\ message' = [message EXCEPT ![c] = msg]
       ELSE Finish(c)
    /\ UNCHANGED <<response_cache, minted, hash_seed, inbound, outbound,
                   peer_closed, probe>>

\* wait_for returns what analyze_response returned, or passes on what it raised
\* (lines 120-124)
Analyze(c) ==
    /\ state[c] = "Analyzing"
    /\ LET r == analyze_response(response_cache, hash_seed, minted,
                                 get_response(message[c]), get_concept(message[c]))
       IN  /\ response_cache' = r.cache
           /\ minted' = r.minted
           /\ IF r.raised = "none"
              THEN Respond(c, Result(r.result)) /\ UNCHANGED message
              ELSE Raise(c, r.raised)
    /\ UNCHANGED <<hash_seed, inbound, taken, outbound, peer_closed, probe>>

\* wait_for raises asyncio.TimeoutError: the 10 s passed before analyze_response
\* ran, and it is cancelled unrun (lines 121-124, 134)
AnalyzeTimeout(c) ==
    /\ state[c] = "Analyzing"
    /\ Raise(c, "TimeoutError")
    /\ UNCHANGED <<response_cache, minted, hash_seed, inbound, taken, outbound,
                   peer_closed, probe>>

\* websocket.send(json.dumps(...)) completes and the loop awaits the next frame
Send(c) ==
    /\ state[c] = "Responding"
    /\ ~peer_closed[c]
    /\ outbound' = [outbound EXCEPT ![c] =
                       Append(@, [no   |-> taken[c],
                                  req  |-> message[c],
                                  why  |-> outcome[c].why,
                                  body |-> payload_of(outcome[c])])]
    /\ state' = [state EXCEPT ![c] = "Open"]
    /\ message' = [message EXCEPT ![c] = NoMessage]
    /\ outcome' = [outcome EXCEPT ![c] = NoOutcome]
    /\ UNCHANGED <<response_cache, active_connections, minted, hash_seed,
                   remove_failed, inbound, taken, peer_closed, probe>>

\* websocket.send raises ConnectionClosed: in the try body it is caught by
\* `except Exception`, whose own send raises again; raised in an except clause it
\* propagates at once.  Either way the exception leaves the loop (line 146).
SendFail(c) ==
    /\ state[c] = "Responding"
    /\ peer_closed[c]
    /\ Finish(c)
    /\ UNCHANGED <<response_cache, minted, hash_seed, inbound, taken, outbound,
                   peer_closed, probe>>

\* `async for` ends (or raises ConnectionClosedError): no frame is left and the
\* transport is closed
StreamEnd(c) ==
    /\ state[c] = "Open"
    /\ taken[c] = inbound[c]
    /\ peer_closed[c]
    /\ Finish(c)
    /\ UNCHANGED <<response_cache, minted, hash_seed, inbound, taken, outbound,
                   peer_closed, probe>>

NoProbe == [fn |-> "none", response |-> <<>>, concept |-> "", score |-> 0]

\* AIConceptAnalysisServer.__init__, in a process with some hash seed
Init ==
    /\ response_cache = EmptyCache
    /\ active_connections = {}
    /\ minted = 0
    /\ hash_seed \in [HashDomain -> HashValues]
    /\ state = [c \in Conns |-> "Unconnected"]
    /\ message = [c \in Conns |-> NoMessage]
    /\ outcome = [c \in Conns |-> NoOutcome]
    /\ remove_failed = {}
    /\ inbound = [c \in Conns |-> 0]
    /\ taken = [c \in Conns |-> 0]
    /\ outbound = [c \in Conns |-> <<>>]
    /\ peer_closed = [c \in Conns |-> FALSE]
    /\ probe = NoProbe

\* the server as written: analyze_response never suspends, so the 10 s bound of
\* wait_for cannot expire
Next ==
    \/ \E c \in Conns : Connect(c)
    \/ \E c \in Conns : ClientSend(c)
    \/ \E c \in Conns : ClientClose(c)
    \/ \E c \in Conns : \E m \in Frames : Receive(c, m)
    \/ \E c \in Conns : Analyze(c)
    \/ \E c \in Conns : Send(c)
    \/ \E c \in Conns : SendFail(c)
    \/ \E c \in Conns : StreamEnd(c)

Spec == Init /\ [][Next]_vars

\* the frames sent where the scheduling is fair
FairFrames ==
    { Frame("malformed", NoFields, EmptyStr, ""),
      Frame("object", {"response"}, Str(TextOk), ""),
      Request(Str(TextOk), "machine_learning"),
      Request(Num(<<"1">>), "machine_learning") }

NextFair ==
    \/ \E c \in Conns : Connect(c)
    \/ \E c \in Conns : ClientSend(c)
    \/ \E c \in Conns : ClientClose(c)
    \/ \E c \in Conns : \E m \in FairFrames : Receive(c, m)
    \/ \E c \in Conns : Analyze(c)
    \/ \E c \in Conns : Send(c)
    \/ \E c \in Conns : SendFail(c)
    \/ \E c \in Conns : StreamEnd(c)

\* the handler task of c, ready to run (its analysis has no suspension point;
\* its send completes or fails on the closed transport), is run: the steps
\* Analyze(c), Send(c) and SendFail(c) are the steps of NextFair that move the
\* position of c out of Analyzing or Responding
HandlerRuns(c) ==
    /\ state[c] \in {"Analyzing", "Responding"}
    /\ \E s \in {"Responding", "Open", "Closed"} :
          /\ s # state[c]
          /\ state' = [state EXCEPT ![c] = s]

\* the server with its handler tasks scheduled fairly: the event loop runs
\* every task that is ready
SpecFair ==
    /\ Init
    /\ [][NextFair]_vars
    /\ \A c \in Conns : WF_state(HandlerRuns(c))

\* the frames sent where the analysis may be forced past the time bound
TimeoutFrames ==
    { Frame("malformed", NoFields, EmptyStr, ""),
      Request(Str(TextAlgorithm), "machine_learning"),
      Frame("object", {"response"}, Str(TextOk), ""),
      Request(Num(<<"1">>), "machine_learning") }

\* the server with the analysis forced past the time bound
NextTimeout ==
    \/ \E c \in Conns : Connect(c)
    \/ \E c \in Conns : ClientSend(c)
    \/ \E c \in Conns : ClientClose(c)
    \/ \E c \in Conns : \E m \in TimeoutFrames : Receive(c, m)
    \/ \E c \in Conns : Analyze(c)
    \/ \E c \in Conns : AnalyzeTimeout(c)
    \/ \E c \in Conns : Send(c)
    \/ \E c \in Conns : SendFail(c)
    \/ \E c \in Conns : StreamEnd(c)

SpecTimeout == Init /\ [][NextTimeout]_vars

\* the frames sent where clients send JSON documents that are not objects
NonObjectFrames ==
    { Frame("malformed", NoFields, EmptyStr, ""),
      Frame("array", NoFields, EmptyStr, ""),
      Frame("string", NoFields, EmptyStr, ""),
      Frame("number", NoFields, EmptyStr, ""),
      Frame("null", NoFields, EmptyStr, ""),
      Request(Str(TextOk), "machine_learning"),
      Request(Num(<<"1">>), "machine_learning") }

\* the server with clients that send documents that are not objects
NextNonObject ==
    \/ \E c \in Conns : Connect(c)
    \/ \E c \in Conns : ClientSend(c)
    \/ \E c \in Conns : ClientClose(c)
    \/ \E c \in Conns : \E m \in NonObjectFrames : Receive(c, m)
    \/ \E c \in Conns : Analyze(c)
    \/ \E c \in Conns : Send(c)
    \/ \E c \in Conns : SendFail(c)
    \/ \E c \in Conns : StreamEnd(c)

SpecNonObject == Init /\ [][NextNonObject]_vars

\* requests for two concepts, one of which is the other followed by "_0", the
\* ending of a cache key
ConceptFrames ==
    { Request(Str(TextOk), "ai_ethics"),
      Request(Str(TextOk), "ai_ethics_0"),
      Request(Str(TextAlgorithm), "ai_ethics"),
      Request(Str(TextAlgorithm), "ai_ethics_0") }

\* the server with clients that ask about both concepts
NextConcepts ==
    \/ \E c \in Conns : Connect(c)
    \/ \E c \in Conns : ClientSend(c)
    \/ \E c \in Conns : ClientClose(c)
    \/ \E c \in Conns : \E m \in ConceptFrames : Receive(c, m)
    \/ \E c \in Conns : Analyze(c)
    \/ \E c \in Conns : Send(c)
    \/ \E c \in Conns : SendFail(c)
    \/ \E c \in Conns : StreamEnd(c)

SpecConcepts == Init /\ [][NextConcepts]_vars

(***************************************************************************)
(* _calculate_score called directly on a range of texts and concepts       *)
(***************************************************************************)
\* words a response is put together from: keywords in other letter case, inside
\* longer words, cut short, and words that match nothing
SampleWords ==
    << <<"A","l","g","o","r","i","t","h","m","s">>,
       <<"m","e","t","a","d","a","t","a">>,
       <<"M","O","D","E","L">>,
       <<"t","r","a","i","n","i","n","g",",">>,
       <<"B","i","a","s","e","d">>,
       <<"l","a","y","e">> >>

\* a response holds up to MaxFill filler words after its sample words
MaxFill == 51
Filler == <<"o","k">>

RECURSIVE Repeat(_, _)
Repeat(word, n) == IF n = 0 THEN <<>> ELSE word \o <<" ">> \o Repeat(word, n - 1)

RECURSIVE Join(_, _)
Join(S, i) ==
    IF i > Len(SampleWords) THEN <<>>
    ELSE (IF i \in S THEN SampleWords[i] \o <<" ">> ELSE <<>>) \o Join(S, i + 1)

\* the sample words numbered in S, then n filler words
TextOf(S, n) == Join(S, 1) \o Repeat(Filler, n)

ProbeConcepts == {"machine_learning", "neural_networks", "ai_ethics", "robotics"}

\* the server is idle; one call of _calculate_score is about to be made
InitScore ==
    /\ response_cache = EmptyCache
    /\ active_connections = {}
    /\ minted = 0
    /\ hash_seed = [t \in HashDomain |-> 0]
    /\ state = [c \in Conns |-> "Unconnected"]
    /\ message = [c \in Conns |-> NoMessage]
    /\ outcome = [c \in Conns |-> NoOutcome]
    /\ remove_failed = {}
    /\ inbound = [c \in Conns |-> 0]
    /\ taken = [c \in Conns |-> 0]
    /\ outbound = [c \in Conns |-> <<>>]
    /\ peer_closed = [c \in Conns |-> FALSE]
    /\ \E S \in SUBSET (1..Len(SampleWords)) : \E n \in 0..MaxFill :
         \E concept \in ProbeConcepts :
            probe = [fn |-> "call", response |-> TextOf(S, n),
                     concept |-> concept, score |-> 0]

\* total_score = self._calculate_score(response, concept)
CallScore ==
    /\ probe.fn = "call"
    /\ probe' = [probe EXCEPT !.fn = "_calculate_score",
                              !.score = calculate_score(probe.response, probe.concept)]
    /\ UNCHANGED server_vars

SpecScore == InitScore /\ [][CallScore]_vars

(***************************************************************************)
(* float: IEEE-754 binary64 values m * 2^e with 2^52 <= m < 2^53, zero as  *)
(* m = <<>>, and the correctly rounded (nearest, ties to even) operations  *)
(* the scoring expression uses.  A mantissa is a natural number written as *)
(* a little-endian sequence of 13-bit limbs.                               *)
(***************************************************************************)
LimbBits  == 13
LimbBase  == 8192
Precision == 53
QuotientBits == 64

RECURSIVE Pow2(_)
Pow2(n) == IF n = 0 THEN 1 ELSE 2 * Pow2(n - 1)

RECURSIVE nat_of(_)
nat_of(n) == IF n = 0 THEN <<>> ELSE <<n % LimbBase>> \o nat_of(n \div LimbBase)

RECURSIVE strip(_)
strip(a) ==
    IF a /= <<>> /\ a[Len(a)] = 0 THEN strip(SubSeq(a, 1, Len(a) - 1)) ELSE a

limb(a, i) == IF i >= 1 /\ i <= Len(a) THEN a[i] ELSE 0

RECURSIVE carry(_, _)
carry(columns, c) ==
    IF columns = <<>> THEN nat_of(c)
    ELSE LET t == columns[1] + c
         IN  <<t % LimbBase>> \o carry(Tail(columns), t \div LimbBase)

nat_add(a, b) ==
    strip(carry([i \in 1..Max(Len(a), Len(b)) |-> limb(a, i) + limb(b, i)], 0))

nat_mul(a, b) ==
    strip(carry([i \in 1..(Len(a) + Len(b)) |->
                    Sum([j \in 1..Len(a) |-> a[j] * limb(b, i - j + 1)], 1..Len(a))],
                0))

RECURSIVE nat_divmod(_, _)
nat_divmod(a, d) ==
    IF a = <<>> THEN [quot |-> <<>>, rem |-> 0]
    ELSE LET high == nat_divmod(Tail(a), d)
             t    == high.rem * LimbBase + a[1]
         IN  [quot |-> <<t \div d>> \o high.quot, rem |-> t % d]

RECURSIVE nat_less(_, _)
nat_less(a, b) ==
    IF Len(a) /= Len(b) THEN Len(a) < Len(b)
    ELSE IF a = <<>> THEN FALSE
    ELSE IF a[Len(a)] /= b[Len(b)] THEN a[Len(a)] < b[Len(b)]
    ELSE nat_less(SubSeq(a, 1, Len(a) - 1), SubSeq(b, 1, Len(b) - 1))

RECURSIVE small_bit_length(_)
small_bit_length(n) == IF n = 0 THEN 0 ELSE 1 + small_bit_length(n \div 2)

bit_length(a) ==
    IF a = <<>> THEN 0 ELSE (Len(a) - 1) * LimbBits + small_bit_length(a[Len(a)])

shift_left(a, s) ==
    LET r == s % LimbBits
    IN  strip([i \in 1..(s \div LimbBits) |-> 0]
              \o carry([i \in 1..Len(a) |-> a[i] * Pow2(r)], 0))

shift_right(a, s) ==
    LET q == s \div LimbBits
        r == s % LimbBits
    IN  strip([i \in 1..Max(Len(a) - q, 0) |->
                  (a[i + q] \div Pow2(r))
                  + (limb(a, i + q + 1) % Pow2(r)) * Pow2(LimbBits - r)])

bit(a, i) == (limb(a, (i \div LimbBits) + 1) \div Pow2(i % LimbBits)) % 2

low_bits_zero(a, s) ==
    /\ \A i \in 1..(s \div LimbBits) : limb(a, i) = 0
    /\ limb(a, (s \div LimbBits) + 1) % Pow2(s % LimbBits) = 0

FloatZero == [m |-> <<>>, e |-> 0]

\* n * 2^e, plus a nonzero amount below the last bit of n when inexact,
\* rounded to the nearest float, ties to even
round_nearest(n, e, inexact) ==
    LET len == bit_length(n)
        s   == len - Precision
    IN  IF n = <<>> THEN FloatZero
        ELSE IF s <= 0 THEN [m |-> shift_left(n, -s), e |-> e + s]
        ELSE LET q    == shift_right(n, s)
                 half == bit(n, s - 1) = 1
                 rest == inexact \/ ~low_bits_zero(n, s - 1)
                 r    == IF half /\ (rest \/ bit(q, 0) = 1)
                         THEN nat_add(q, <<1>>) ELSE q
             IN  IF bit_length(r) > Precision
                 THEN [m |-> shift_right(r, 1), e |-> e + s + 1]
                 ELSE [m |-> r, e |-> e + s]

\* float(n) of a non-negative int below 2^53
float_of(n) == round_nearest(nat_of(n), 0, FALSE)

\* a / b of two non-negative ints (true division)
int_truediv(a, b) ==
    LET q == nat_divmod(shift_left(nat_of(a), QuotientBits), b)
    IN  round_nearest(strip(q.quot), -QuotientBits, q.rem /= 0)

float_mul(x, y) ==
    IF x.m = <<>> \/ y.m = <<>> THEN FloatZero
    ELSE round_nearest(nat_mul(x.m, y.m), x.e + y.e, FALSE)

float_add(x, y) ==
    IF x.m = <<>> THEN y
    ELSE IF y.m = <<>> THEN x
    ELSE LET e == Min(x.e, y.e)
         IN  round_nearest(nat_add(shift_left(x.m, x.e - e),
                                   shift_left(y.m, y.e - e)), e, FALSE)

float_less(x, y) ==
    IF y.m = <<>> THEN FALSE
    ELSE IF x.m = <<>> THEN TRUE
    ELSE IF x.e /= y.e THEN x.e < y.e
    ELSE nat_less(x.m, y.m)

float_min(a, b) == IF float_less(b, a) THEN b ELSE a
float_max(a, b) == IF float_less(a, b) THEN b ELSE a

\* min(len(response.split()) / 50, 1) as the float the code computes
length_score_float(words) == float_min(int_truediv(words, LengthNorm), float_of(1))

\* a plausible slip: the weights multiplied by 100 beforehand
total_score_premultiplied(matched, words) ==
    LET total == float_add(float_mul(float_of(matched), float_of(60)),
                           float_mul(length_score_float(words), float_of(40)))
    IN  float_min(float_max(total, float_of(0)), float_of(100))

\* (keyword_score * 0.6 + length_score * 0.4) * 100, then the clamp
total_score_float(matched, words) ==
    LET total == float_mul(
                   float_add(float_mul(float_of(matched),
                                       int_truediv(KeywordWeight, 10)),
                             float_mul(length_score_float(words),
                                       int_truediv(LengthWeight, 10))),
                   float_of(PercentFactor))
    IN  float_min(float_max(total, float_of(0)), float_of(100))

\* the known concepts have four keywords each
MaxKeywords == 4

\* the float _calculate_score returns, by the number of keywords matched and
\* the number of words, over the counts the sampled texts reach
float_scores ==
    [matched \in 0..MaxKeywords, words \in 0..(MaxFill + Len(SampleWords)) |->
        total_score_float(matched, words)]

\* _calculate_score as the float the code returns
calculate_score_float(response, concept) ==
    float_scores[keyword_score(response, concept), word_count(response)]

(***************************************************************************)
(* _calculate_score called directly, its float result kept                 *)
(***************************************************************************)
\* concepts the keyword table has, and some it has not
FloatConcepts == {"machine_learning", "ai_ethics", "robotics", "Machine_Learning", ""}

\* the server is idle; one call of _calculate_score is about to be made
InitFloat ==
    /\ response_cache = EmptyCache
    /\ active_connections = {}
    /\ minted = 0
    /\ hash_seed = [t \in HashDomain |-> 0]
    /\ state = [c \in Conns |-> "Unconnected"]
    /\ message = [c \in Conns |-> NoMessage]
    /\ outcome = [c \in Conns |-> NoOutcome]
    /\ remove_failed = {}
    /\ inbound = [c \in Conns |-> 0]
    /\ taken = [c \in Conns |-> 0]
    /\ outbound = [c \in Conns |-> <<>>]
    /\ peer_closed = [c \in Conns |-> FALSE]
    /\ \E S \in SUBSET (1..Len(SampleWords)) : \E n \in 0..MaxFill :
         \E concept \in FloatConcepts :
            probe = [fn |-> "call", response |-> TextOf(S, n),
                     concept |-> concept, score |-> 0, float |-> FloatZero]

\* total_score = self._calculate_score(response, concept)
CallScoreFloat ==
    /\ probe.fn = "call"
    /\ probe' = [probe EXCEPT
                    !.fn = "_calculate_score",
                    !.score = calculate_score(probe.response, probe.concept),
                    !.float = calculate_score_float(probe.response, probe.concept)]
    /\ UNCHANGED server_vars

SpecFloat == InitFloat /\ [][CallScoreFloat]_vars

(***************************************************************************)
(* _calculate_score called on two texts for one concept                    *)
(***************************************************************************)
\* one keyword in lower and in upper case, one inside a longer word, one
\* capitalised in the plural
PairWords ==
    << <<"m","o","d","e","l">>,
       <<"M","O","D","E","L">>,
       <<"m","e","t","a","d","a","t","a">>,
       <<"A","l","g","o","r","i","t","h","m","s">> >>

\* numbers of filler words: none, few, and around the 50 words the length
\* score stops growing at
PairFills == {0, 1, 46, 47, 50}

RECURSIVE JoinWords(_, _, _)
JoinWords(words, S, i) ==
    IF i > Len(words) THEN <<>>
    ELSE (IF i \in S THEN words[i] \o <<" ">> ELSE <<>>) \o JoinWords(words, S, i + 1)

PairTexts ==
    {JoinWords(PairWords, S, 1) \o Repeat(Filler, n) :
        S \in SUBSET (1..Len(PairWords)), n \in PairFills}

PairConcepts == {"machine_learning", "robotics"}

\* the server is idle; _calculate_score is about to be called on r1 and on r2
InitPair ==
    /\ response_cache = EmptyCache
    /\ active_connections = {}
    /\ minted = 0
    /\ hash_seed = [t \in HashDomain |-> 0]
    /\ state = [c \in Conns |-> "Unconnected"]
    /\ message = [c \in Conns |-> NoMessage]
    /\ outcome = [c \in Conns |-> NoOutcome]
    /\ remove_failed = {}
    /\ inbound = [c \in Conns |-> 0]
    /\ taken = [c \in Conns |-> 0]
    /\ outbound = [c \in Conns |-> <<>>]
    /\ peer_closed = [c \in Conns |-> FALSE]
    /\ \E r1 \in PairTexts : \E r2 \in PairTexts : \E concept \in PairConcepts :
            probe = [fn |-> "call", r1 |-> r1, r2 |-> r2, concept |-> concept,
                     score1 |-> 0, score2 |-> 0,
                     float1 |-> FloatZero, float2 |-> FloatZero]

\* self._calculate_score(r1, concept); self._calculate_score(r2, concept)
CallPair ==
    /\ probe.fn = "call"
    /\ probe' = [probe EXCEPT
                    !.fn = "_calculate_score",
                    !.score1 = calculate_score(probe.r1, probe.concept),
                    !.score2 = calculate_score(probe.r2, probe.concept),
                    !.float1 = calculate_score_float(probe.r1, probe.concept),
                    !.float2 = calculate_score_float(probe.r2, probe.concept)]
    /\ UNCHANGED server_vars

SpecPair == InitPair /\ [][CallPair]_vars

(***************************************************************************)
(* _generate_feedback called directly, more than once in one process       *)
(***************************************************************************)
\* values hash(response) takes: both signs, both parities
FeedbackHashes == {-3, -2, 0, 1, 6}

\* scores in tenths: the ends of the range, both sides of each threshold, the
\* thresholds themselves, and one value beyond each end
FeedbackScores == {-5, 0, 399, 400, 401, 749, 750, 751, 1000, 1004}

\* the number of calls made with the same arguments
MaxCalls == 2

\* a process with some hash seed; _generate_feedback is about to be called
InitFeedback ==
    /\ response_cache = EmptyCache
    /\ active_connections = {}
    /\ minted = 0
    /\ hash_seed \in [HashDomain -> FeedbackHashes]
    /\ state = [c \in Conns |-> "Unconnected"]
    /\ message = [c \in Conns |-> NoMessage]
    /\ outcome = [c \in Conns |-> NoOutcome]
    /\ remove_failed = {}
    /\ inbound = [c \in Conns |-> 0]
    /\ taken = [c \in Conns |-> 0]
    /\ outbound = [c \in Conns |-> <<>>]
    /\ peer_closed = [c \in Conns |-> FALSE]
    /\ \E response \in HashDomain : \E score \in FeedbackScores :
            probe = [fn |-> "call", response |-> response, score |-> score,
                     returned |-> <<>>]

\* feedback = self._generate_feedback(response, concept, total_score)
CallFeedback ==
    /\ Len(probe.returned) < MaxCalls
    /\ probe' = [probe EXCEPT
                    !.fn = "_generate_feedback",
                    !.returned = Append(@,
                        generate_feedback(py_hash(hash_seed, Str(probe.response)),
                                          probe.score))]
    /\ UNCHANGED server_vars

SpecFeedback == InitFeedback /\ [][CallFeedback]_vars

(***************************************************************************)
(* The server with requests whose responses hold all four keywords         *)
(***************************************************************************)
\* all four keywords of machine_learning in four words, and in more than fifty
KeywordsShort == TextOf({1, 2, 3, 4}, 0)
KeywordsLong  == TextOf({1, 2, 3, 4}, MaxFill)
\* all four keywords of ai_ethics
KeywordsEthics ==
    KwBias \o <<" ">> \o KwFairness \o <<" ">> \o KwTransparency
           \o <<" ">> \o KwAccountability

KeywordTexts == {KeywordsShort, KeywordsLong, KeywordsEthics, TextOk}

KeywordFrames ==
    { Request(Str(KeywordsShort), "machine_learning"),
      Request(Str(KeywordsLong), "machine_learning"),
      Request(Str(KeywordsEthics), "ai_ethics"),
      Request(Str(TextOk), "machine_learning") }

\* AIConceptAnalysisServer.__init__, in a process with some hash seed: the
\* hashes of the texts are named from that of the shortest one
InitKeywords ==
    /\ response_cache = EmptyCache
    /\ active_connections = {}
    /\ minted = 0
    /\ hash_seed \in {s \in [KeywordTexts -> HashValues] : s[TextOk] = 0}
    /\ state = [c \in Conns |-> "Unconnected"]
    /\ message = [c \in Conns |-> NoMessage]
    /\ outcome = [c \in Conns |-> NoOutcome]
    /\ remove_failed = {}
    /\ inbound = [c \in Conns |-> 0]
    /\ taken = [c \in Conns |-> 0]
    /\ outbound = [c \in Conns |-> <<>>]
    /\ peer_closed = [c \in Conns |-> FALSE]
    /\ probe = NoProbe

NextKeywords ==
    \/ \E c \in Conns : Connect(c)
    \/ \E c \in Conns : ClientSend(c)
    \/ \E c \in Conns : ClientClose(c)
    \/ \E c \in Conns : \E m \in KeywordFrames : Receive(c, m)
    \/ \E c \in Conns : Analyze(c)
    \/ \E c \in Conns : Send(c)
    \/ \E c \in Conns : SendFail(c)
    \/ \E c \in Conns : StreamEnd(c)

SpecKeywords == InitKeywords /\ [][NextKeywords]_vars

(***************************************************************************)
(* Properties                                                              *)
(***************************************************************************)
\* the replies sent so far, as (connection, position) pairs
Sent == {p \in Conns \X (1..MaxFrames) : p[2] <= Len(outbound[p[1]])}
Reply(p) == outbound[p[1]][p[2]]

\* the body is a JSON document at all
well_formed(m) == m.kind \in {"array", "string", "number", "null", "object"}

\* a request the protocol calls valid: an object with non-empty text in both fields
valid_request(m) ==
    /\ m.kind = "object"
    /\ get_response(m).t = "str"
    /\ Len(get_response(m).s) > 0
    /\ get_concept(m) # ""

\* an object that fails `if not response or not concept`
falsy_field(m) ==
    m.kind = "object" /\ (~truthy(get_response(m)) \/ get_concept(m) = "")

\* C1: two calls of analyze_response with the same non-empty text and concept
\* return the same total_score, feedback and unique_id, whatever was called in
\* between and on whichever connection; a repeated request mints no identifier:
\* every identifier minted belongs to exactly one cache entry.
C1_Idempotent ==
    /\ \A p, q \in Sent :
          ( /\ valid_request(Reply(p).req)
            /\ Reply(q).req = Reply(p).req
            /\ Reply(p).why = "result"
            /\ Reply(q).why = "result" )
          => /\ Reply(p).body.result.total_score = Reply(q).body.result.total_score
             /\ Reply(p).body.result.feedback = Reply(q).body.result.feedback
             /\ Reply(p).body.result.unique_id = Reply(q).body.result.unique_id
    /\ minted = Cardinality(DOMAIN response_cache)

\* two identical valid requests were answered one after the other on one connection
C1_Witness ==
    \E c \in Conns :
        /\ Len(outbound[c]) >= 2
        /\ valid_request(outbound[c][1].req)
        /\ outbound[c][2].req = outbound[c][1].req
        /\ outbound[c][1].why = "result"
        /\ outbound[c][2].why = "result"

\* C2: an object whose response or concept is empty or missing is answered with
\* exactly the "Invalid input" payload; the handler never enters the analysis with
\* it, the step that takes it and the step that answers it leave the cache and the
\* identifier count alone, and after the reply the handler is Open again (unless
\* the send failed because the transport was closed).
C2_InvalidInput ==
    /\ [](\A c \in Conns :
            falsy_field(message[c]) =>
                /\ state[c] = "Responding"
                /\ outcome[c].why = "invalid")
    /\ [](\A p \in Sent :
            falsy_field(Reply(p).req) =>
                Reply(p).body = [error   |-> "Invalid input",
                                 details |-> "Response and concept are required",
                                 result  |-> NoResult])
    /\ [][\A c \in Conns :
            /\ (falsy_field(message'[c]) /\ message[c] # message'[c]) =>
                  /\ response_cache' = response_cache
                  /\ minted' = minted
            /\ (falsy_field(message[c]) /\ state'[c] # state[c]) =>
                  /\ response_cache' = response_cache
                  /\ minted' = minted
                  /\ \/ /\ state'[c] = "Open"
                        /\ c \in active_connections'
                        /\ Len(outbound'[c]) = Len(outbound[c]) + 1
                     \/ /\ peer_closed[c]
                        /\ state'[c] = "Closed"]_vars

\* a request without a concept was answered "Invalid input" and the next request
\* on the same connection was analysed and answered
C2_Witness ==
    \E c \in Conns :
        /\ Len(outbound[c]) >= 2
        /\ falsy_field(outbound[c][1].req)
        /\ get_concept(outbound[c][1].req) = ""
        /\ outbound[c][1].body.error = "Invalid input"
        /\ outbound[c][2].why = "result"

\* C3: every frame whose body is not well-formed is answered with exactly
\* {error: "JSON parsing error"}.
C3_NotWellFormedGetsJsonError ==
    \A p \in Sent :
        ~well_formed(Reply(p).req) =>
            Reply(p).body = [error |-> "JSON parsing error", details |-> "",
                             result |-> NoResult]

\* C4: when wait_for times out, the handler sends exactly the "Analysis timeout"
\* payload and is Open again (unless that send fails on a closed transport); a
\* valid request that follows on the same connection is analysed as usual: it gets
\* a success result unless it times out itself.
C4_AnalysisTimeout ==
    /\ [](\A c \in Conns :
            outcome[c].why = "TimeoutError" =>
                state[c] = "Responding" /\ c \in active_connections)
    /\ [](\A p \in Sent :
            Reply(p).why = "TimeoutError" =>
                /\ Reply(p).body = [error   |-> "Analysis timeout",
                                    details |-> "Response took too long to process",
                                    result  |-> NoResult]
                /\ \A q \in Sent :
                      ( /\ q[1] = p[1]
                        /\ q[2] = p[2] + 1
                        /\ valid_request(Reply(q).req)
                        /\ Reply(q).why # "TimeoutError" )
                      => /\ Reply(q).why = "result"
                         /\ Reply(q).body.error = ""
                         /\ Reply(q).body.result.concept = get_concept(Reply(q).req))
    /\ [][\A c \in Conns :
            (outcome[c].why = "TimeoutError" /\ state'[c] # state[c]) =>
                \/ /\ state'[c] = "Open"
                   /\ c \in active_connections'
                   /\ Len(outbound'[c]) = Len(outbound[c]) + 1
                   /\ outbound'[c][Len(outbound'[c])].why = "TimeoutError"
                \/ /\ peer_closed[c]
                   /\ state'[c] = "Closed"]_vars

\* a request timed out and the next valid request on that connection succeeded
C4_Witness ==
    \E c \in Conns :
        /\ Len(outbound[c]) >= 2
        /\ outbound[c][1].why = "TimeoutError"
        /\ valid_request(outbound[c][2].req)
        /\ outbound[c][2].why = "result"
        /\ outbound[c][2].body.error = ""

\* C5: active_connections is exactly the set of connections whose handler has
\* started and not finished; no removal raised KeyError; when every handler has
\* finished the set is empty.
C5_ActiveConnections ==
    /\ active_connections = {c \in Conns : state[c] \in Running}
    /\ remove_failed = {}
    /\ (\A c \in Conns : state[c] = "Closed") => active_connections = {}

\* both handlers have finished, one through the loop ending and one through an
\* exception of send (a frame taken and never answered), and the set is empty
C5_Witness ==
    \E c, d \in Conns :
        /\ state[c] = "Closed" /\ taken[c] = Len(outbound[c])
        /\ state[d] = "Closed" /\ taken[d] > Len(outbound[d])
        /\ active_connections = {}

\* C6: on each connection the i-th reply answers the i-th frame that arrived, and
\* the handler never holds more than one frame taken and unanswered: it takes
\* frame k+1 only after the reply to frame k is sent, whatever the other
\* connection does.
C6_InOrder ==
    \A c \in Conns :
        /\ \A i \in 1..Len(outbound[c]) : outbound[c][i].no = i
        /\ taken[c] \in {Len(outbound[c]), Len(outbound[c]) + 1}
        /\ state[c] = "Open" => taken[c] = Len(outbound[c])
        /\ state[c] \in {"Analyzing", "Responding"} =>
              /\ taken[c] = Len(outbound[c]) + 1
              /\ message[c] # NoMessage

\* a second frame has arrived while the reply to the first is still to be sent,
\* and the other connection is open too
C6_Witness ==
    \E c, d \in Conns :
        /\ c # d
        /\ state[c] = "Responding"
        /\ inbound[c] > taken[c]
        /\ state[d] \in Running

\* C7: a handler finishes only on transport closure: from Open when the closed
\* stream has no frame left, or from Responding when the send fails on the closed
\* transport.  A decode error, a failed validation, a timeout and any other
\* exception each leave the handler Responding, and the send of that one error
\* reply leaves it Open.  A finished handler stays finished: it takes no frame and
\* sends nothing.
C7_ClosedOnlyByTransport ==
    /\ [](\A c \in Conns :
            outcome[c].why \notin {"none", "result"} =>
                state[c] = "Responding" /\ c \in active_connections)
    /\ [][\A c \in Conns :
            /\ (state[c] # "Closed" /\ state'[c] = "Closed") =>
                  /\ peer_closed[c]
                  /\ \/ state[c] = "Open" /\ taken[c] = inbound[c]
                     \/ state[c] = "Responding"
            /\ (state[c] = "Responding" /\ ~peer_closed[c] /\ state'[c] # state[c]) =>
                  /\ state'[c] = "Open"
                  /\ Len(outbound'[c]) = Len(outbound[c]) + 1
                  /\ outbound'[c][Len(outbound'[c])].why = outcome[c].why
            /\ state[c] = "Closed" =>
                  /\ state'[c] = "Closed"
                  /\ outbound'[c] = outbound[c]
                  /\ taken'[c] = taken[c]
                  /\ message'[c] = NoMessage]_vars

\* an exception of the analysis and then a timeout were each answered with an
\* error reply on one connection, which is still Open on an open transport
C7_Witness ==
    \E c \in Conns :
        /\ Len(outbound[c]) >= 2
        /\ outbound[c][1].why = "AttributeError"
        /\ outbound[c][1].body.error = "Internal server error"
        /\ outbound[c][2].why = "TimeoutError"
        /\ state[c] = "Open"
        /\ ~peer_closed[c]

\* C8: an entry of response_cache, once stored, is there unchanged in every later
\* state: no step overwrites or removes it, so the set of cached keys only grows.
C8_CacheEntriesStable ==
    [][\A k \in DOMAIN response_cache :
          /\ k \in DOMAIN response_cache'
          /\ response_cache'[k] = response_cache[k]]_vars

\* the two connections were each answered from the same cache entry
C8_Witness ==
    \E c, d \in Conns :
        /\ c # d
        /\ Len(outbound[c]) >= 1
        /\ Len(outbound[d]) >= 1
        /\ outbound[c][1].why = "result"
        /\ outbound[d][1].why = "result"
        /\ outbound[c][1].body.result.unique_id = outbound[d][1].body.result.unique_id
        /\ \E k \in DOMAIN response_cache :
              response_cache[k] = outbound[c][1].body.result

\* C9: the step that finishes one connection's handler changes nothing of any
\* other connection (its handler's position, its membership in
\* active_connections, its frames and replies) and nothing of the cache; and every
\* valid request, on whichever connection, is answered with a success result.
C9_Isolation ==
    /\ [][\A c \in Conns :
            (state[c] \in Running /\ state'[c] = "Closed") =>
                /\ response_cache' = response_cache
                /\ \A d \in Conns \ {c} :
                      /\ state'[d] = state[d]
                      /\ (d \in active_connections') = (d \in active_connections)
                      /\ message'[d] = message[d]
                      /\ outcome'[d] = outcome[d]
                      /\ inbound'[d] = inbound[d]
                      /\ taken'[d] = taken[d]
                      /\ outbound'[d] = outbound[d]
                      /\ peer_closed'[d] = peer_closed[d]]_vars
    /\ [](\A p \in Sent :
            valid_request(Reply(p).req) =>
                Reply(p).why = "result" /\ Reply(p).body.error = "")

\* one connection has finished; the other, still registered and on an open
\* transport, is about to send a success result taken from the cache entry that
\* was created through the finished one
C9_Witness ==
    \E c, d \in Conns :
        /\ c # d
        /\ state[c] = "Closed"
        /\ Len(outbound[c]) >= 1
        /\ outbound[c][1].why = "result"
        /\ state[d] = "Responding"
        /\ d \in active_connections
        /\ ~peer_closed[d]
        /\ outcome[d].why = "result"
        /\ outcome[d].result = outbound[c][1].body.result

\* C10: _calculate_score returns a value in [0, 100] for every text and concept;
\* the weighted sum is above 100 whenever two or more keywords match, and is then
\* returned as 100; a sum within the range is returned as it is.
C10_ScoreInRange ==
    LET sum == weighted_sum(probe.response, probe.concept) IN
    probe.fn = "_calculate_score" =>
        /\ probe.score >= 0
        /\ probe.score <= 1000
        /\ sum > 1000 => probe.score = 1000
        /\ sum \in 0..1000 => probe.score = sum
        /\ (sum > 1000) = (keyword_score(probe.response, probe.concept) >= 2)

\* a response in which two keywords match got 100
C10_Witness ==
    /\ probe.fn = "_calculate_score"
    /\ keyword_score(probe.response, probe.concept) = 2
    /\ word_count(probe.response) = 2
    /\ probe.score = 1000

\* the keys of the keyword table
KnownConcepts == {"machine_learning", "neural_networks", "ai_ethics"}

\* min(word_count/50, 1)*40 evaluated in floats
length_times_forty(words) == float_mul(length_score_float(words), float_of(40))

\* (min(word_count/50, 1)*0.4)*100 evaluated in floats
length_only_score(words) ==
    float_mul(float_mul(length_score_float(words), int_truediv(LengthWeight, 10)),
              float_of(PercentFactor))

\* x and y are at most n units in the last place apart
float_close(x, y, n) ==
    \/ x = y
    \/ /\ x.m /= <<>> /\ y.m /= <<>>
       /\ x.e = y.e
       /\ nat_less(x.m, nat_add(y.m, nat_of(n + 1)))
       /\ nat_less(y.m, nat_add(x.m, nat_of(n + 1)))

\* C11 as stated: for a concept that is not in the keyword table,
\* _calculate_score returns exactly the float min(word_count/50, 1)*40.
C11_UnknownConceptExactly ==
    (probe.fn = "_calculate_score" /\ probe.concept \notin KnownConcepts) =>
        probe.float = length_times_forty(word_count(probe.response))

\* C11 amended: for a concept that is not in the keyword table and every text,
\* the call of _calculate_score completes and returns (min(word_count/50, 1)*0.4)*100
\* as floats compute it: a value that depends on the number of words only, whose
\* exact counterpart is min(word_count/50, 1)*40, and which is at most two units
\* in the last place away from the float min(word_count/50, 1)*40.
C11_UnknownConceptLengthOnly ==
    LET words == word_count(probe.response) IN
    /\ (probe.fn = "call" /\ probe.concept \notin KnownConcepts) =>
          ENABLED CallScoreFloat
    /\ (probe.fn = "_calculate_score" /\ probe.concept \notin KnownConcepts) =>
          /\ probe.float = length_only_score(words)
          /\ probe.score = (Min(words, LengthNorm) * 400) \div LengthNorm
          /\ float_close(probe.float, length_times_forty(words), 2)

\* a five-word text holding keywords of the known concepts was scored for a
\* concept the table does not have, and the float is not min(5/50, 1)*40
C11_Witness ==
    /\ probe.fn = "_calculate_score"
    /\ probe.concept = "Machine_Learning"
    /\ word_count(probe.response) = 5
    /\ contains(lower(probe.response), KwAlgorithm)
    /\ contains(lower(probe.response), KwBias)
    /\ probe.float = length_only_score(5)
    /\ probe.float /= length_times_forty(5)

\* the configured keywords of the concept that occur in the response, without
\* regard to letter case
matched_keywords(response, concept) ==
    {i \in 1..Len(keywords(concept)) :
        contains(lower(response), lower(keywords(concept)[i]))}

\* C12: for one concept and two responses r1, r2 such that every configured
\* keyword matched in r1 is matched in r2 and r2 has at least as many words as
\* r1, _calculate_score(r2, concept) >= _calculate_score(r1, concept), in exact
\* arithmetic and as floats.
C12_Monotone ==
    (/\ probe.fn = "_calculate_score"
     /\ matched_keywords(probe.r1, probe.concept)
            \subseteq matched_keywords(probe.r2, probe.concept)
     /\ word_count(probe.r1) <= word_count(probe.r2))
    => /\ probe.score2 >= probe.score1
       /\ ~float_less(probe.float2, probe.float1)

\* two different texts were scored: the second matches a keyword more, in
\* another letter case, has more words, and got the higher score
C12_Witness ==
    /\ probe.fn = "_calculate_score"
    /\ probe.concept = "machine_learning"
    /\ matched_keywords(probe.r1, probe.concept) = {3}
    /\ matched_keywords(probe.r2, probe.concept) = {3, 4}
    /\ contains(probe.r1, KwModel)
    /\ ~contains(probe.r2, KwModel)
    /\ word_count(probe.r1) < word_count(probe.r2)
    /\ probe.score1 < probe.score2
    /\ float_less(probe.float1, probe.float2)

\* C13: _generate_feedback returns one of the two strings of the bucket the
\* thresholds select: low when score < 40, medium when 40 <= score < 75, high
\* when score >= 75, so that exactly 40 is medium and exactly 75 is high; and
\* within one process the same response and score always get the same string.
C13_FeedbackBucket ==
    LET bucket == IF probe.score < 400 THEN feedback_templates.low
                  ELSE IF probe.score < 750 THEN feedback_templates.medium
                  ELSE feedback_templates.high
    IN  probe.fn = "_generate_feedback" =>
          /\ Len(bucket) = 2
          /\ \A i \in 1..Len(probe.returned) :
                /\ probe.returned[i] \in {bucket[1], bucket[2]}
                /\ probe.returned[i] = probe.returned[1]
          /\ probe.score = 400 => probe.returned[1] \in
                {feedback_templates.medium[1], feedback_templates.medium[2]}
          /\ probe.score = 750 => probe.returned[1] \in
                {feedback_templates.high[1], feedback_templates.high[2]}

\* a response with a negative odd hash and the score 40.0 got the second
\* medium string, twice
C13_Witness ==
    /\ probe.fn = "_generate_feedback"
    /\ probe.score = 400
    /\ hash_seed[probe.response] = -3
    /\ probe.returned = << "You're on the right track. Expand on key principles.",
                           "You're on the right track. Expand on key principles." >>

\* two valid requests with different response texts that have the same content
\* hash in this process, and the same concept
colliding(m1, m2) ==
    /\ valid_request(m1)
    /\ valid_request(m2)
    /\ get_concept(m1) = get_concept(m2)
    /\ get_response(m1) # get_response(m2)
    /\ py_hash(hash_seed, get_response(m1)) = py_hash(hash_seed, get_response(m2))

\* C14: when two different response texts have the same content hash and the
\* same concept, the request analysed later raises no error and gets the result
\* cached for the earlier one unchanged: the same unique_id, the earlier text's
\* score and feedback; the cache and the count of identifiers stay as they were.
C14_CollisionServedFromCache ==
    /\ [](\A p, q \in Sent :
            colliding(Reply(p).req, Reply(q).req) =>
                /\ Reply(p).why = "result"
                /\ Reply(q).why = "result"
                /\ Reply(p).body = Reply(q).body)
    /\ [][\A c \in Conns :
            LET key == cache_key(hash_seed, get_response(message[c]),
                                 get_concept(message[c]))
            IN  (/\ state[c] = "Analyzing"
                 /\ state'[c] # "Analyzing"
                 /\ valid_request(message[c])
                 /\ key \in DOMAIN response_cache)
                => /\ outcome'[c] = Result(response_cache[key])
                   /\ response_cache' = response_cache
                   /\ minted' = minted]_vars

\* the short text was answered with the result computed for the long text it
\* collides with: the long text's score, not its own, and the same unique_id
C14_Witness ==
    \E p, q \in Sent :
        /\ Reply(p).req = Request(Str(TextAlgorithm), "machine_learning")
        /\ Reply(q).req = Request(Str(TextOk), "machine_learning")
        /\ colliding(Reply(p).req, Reply(q).req)
        /\ Reply(q).why = "result"
        /\ Reply(q).body.result.unique_id = Reply(p).body.result.unique_id
        /\ Reply(q).body.result.total_score
              = calculate_score(TextAlgorithm, "machine_learning")
        /\ Reply(q).body.result.total_score
              # calculate_score(TextOk, "machine_learning")
        /\ minted = 1

\* C15: under every interleaving of the connection handlers at most one result is
\* minted per cache key: there are as many identifiers as cached keys, different
\* keys hold different identifiers, all replies to requests with one key carry
\* the same unique_id, and a step mints at most one identifier, together with
\* storing exactly one new key, and never removes or replaces a stored entry.
C15_OneResultPerKey ==
    /\ [](/\ minted = Cardinality(DOMAIN response_cache)
          /\ \A k1, k2 \in DOMAIN response_cache :
                k1 # k2 => response_cache[k1].unique_id # response_cache[k2].unique_id
          /\ \A p, q \in Sent :
                (/\ Reply(p).why = "result"
                 /\ Reply(q).why = "result"
                 /\ cache_key(hash_seed, get_response(Reply(p).req), get_concept(Reply(p).req))
                      = cache_key(hash_seed, get_response(Reply(q).req), get_concept(Reply(q).req)))
                => Reply(p).body.result.unique_id = Reply(q).body.result.unique_id)
    /\ [][/\ minted' \in {minted, minted + 1}
          /\ \A k \in DOMAIN response_cache :
                k \in DOMAIN response_cache' /\ response_cache'[k] = response_cache[k]
          /\ Cardinality(DOMAIN response_cache' \ DOMAIN response_cache)
                = minted' - minted]_vars

\* both handlers took the same request before either replied, both have analysed
\* it, and they hold the same result: one identifier was minted
C15_Witness ==
    /\ state["c1"] = "Responding"
    /\ state["c2"] = "Responding"
    /\ message["c1"] = Request(Str(TextAlgorithm), "machine_learning")
    /\ message["c2"] = message["c1"]
    /\ outcome["c1"].why = "result"
    /\ outcome["c2"] = outcome["c1"]
    /\ outbound["c1"] = <<>>
    /\ outbound["c2"] = <<>>
    /\ minted = 1
    /\ Cardinality(DOMAIN response_cache) = 1

\* C16: every message that fails the decode step (text that is no JSON document,
\* and a document that is not an object: an array, a string, a number, null) is
\* answered with the "JSON parsing error" payload; the "Internal server error"
\* payload is sent only for a message that was decoded, passed the validation
\* and failed in the analysis.
C16_DecodeFailureGetsJsonError ==
    \A p \in Sent :
        /\ Reply(p).req.kind # "object" => Reply(p).body.error = "JSON parsing error"
        /\ Reply(p).body.error = "Internal server error" =>
              /\ Reply(p).req.kind = "object"
              /\ decode_and_validate(Reply(p).req) = "analyze"

\* a valid request for a known concept whose response holds all the keywords
\* of that concept
all_keywords(m) ==
    /\ valid_request(m)
    /\ get_concept(m) \in KnownConcepts
    /\ matched_keywords(get_response(m).s, get_concept(m))
          = 1..Len(keywords(get_concept(m)))

\* the frames of the model that are such requests
AllKeywordsFrames ==
    { Request(Str(KeywordsShort), "machine_learning"),
      Request(Str(KeywordsLong), "machine_learning"),
      Request(Str(KeywordsEthics), "ai_ethics") }

\* the result carries the score 100 and a string of the high bucket
top_result(result) ==
    /\ result.total_score = 1000
    /\ result.feedback \in {feedback_templates.high[1], feedback_templates.high[2]}

\* C17 as stated: every success reply to a request for a known concept whose
\* response holds all four keywords of the concept carries total_score 100 and a
\* feedback string of the high bucket.
C17_AllKeywordsTop ==
    \A p \in Sent :
        (Reply(p).req \in AllKeywordsFrames /\ Reply(p).why = "result")
            => top_result(Reply(p).body.result)

\* no other text of this process has the hash of the response of m
collision_free(m) ==
    \A text \in DOMAIN hash_seed :
        text # get_response(m).s => hash_seed[text] # hash_seed[get_response(m).s]

\* C17 amended: for a known concept and a response that holds all four keywords
\* of the concept, whatever its word count, the analysis that misses the cache
\* computes total_score 100 and a feedback string of the high bucket, and the
\* success reply carries them whenever no different response with the same
\* content hash was cached before for the concept (then the reply carries that
\* earlier result instead).
C17_AllKeywordsTopUnlessCollision ==
    /\ []((\A c \in Conns : state[c] = "Unconnected")
            => /\ \A m \in AllKeywordsFrames : all_keywords(m)
               /\ word_count(KeywordsShort) = MaxKeywords
               /\ word_count(KeywordsLong) > LengthNorm)
    /\ [](\A p \in Sent :
            (/\ Reply(p).req \in AllKeywordsFrames
             /\ Reply(p).why = "result"
             /\ collision_free(Reply(p).req))
            => top_result(Reply(p).body.result))
    /\ [][\A c \in Conns :
            (/\ state[c] = "Analyzing"
             /\ state'[c] # "Analyzing"
             /\ message[c] \in AllKeywordsFrames
             /\ cache_key(hash_seed, get_response(message[c]), get_concept(message[c]))
                    \notin DOMAIN response_cache)
            => /\ outcome'[c].why = "result"
               /\ top_result(outcome'[c].result)]_vars

\* the four-word and the 55-word response, whose hashes differ, were both
\* answered with 100 and a high string, each with its own identifier
C17_Witness ==
    \E p, q \in Sent :
        /\ Reply(p).req = Request(Str(KeywordsShort), "machine_learning")
        /\ Reply(q).req = Request(Str(KeywordsLong), "machine_learning")
        /\ word_count(KeywordsLong) > LengthNorm
        /\ hash_seed[KeywordsShort] # hash_seed[KeywordsLong]
        /\ Reply(p).why = "result"
        /\ Reply(q).why = "result"
        /\ top_result(Reply(p).body.result)
        /\ top_result(Reply(q).body.result)
        /\ Reply(p).body.result.unique_id # Reply(q).body.result.unique_id

\* concept strings that end like a key or hold its separator, and hashes of
\* both signs with one and two digits
KeyConcepts == {"", "_", "ai", "ai_", "ai_0", "ai_-1", "ai_0_0", "ai_ethics", "ai_ethics_0"}
KeyHashes == {-10, -1, 0, 1, 10}

C19_CacheFrame ==
    [][/\ response_cache' # response_cache =>
            \E c \in Conns :
                LET key == cache_key(hash_seed, get_response(message[c]),
                                     get_concept(message[c]))
                IN  /\ state[c] = "Analyzing"
                    /\ valid_request(message[c])
                    /\ key \notin DOMAIN response_cache
                    /\ state'[c] = "Responding"
                    /\ outcome'[c].why = "result"
                    /\ DOMAIN response_cache' = DOMAIN response_cache \cup {key}
                    /\ response_cache'[key] = outcome'[c].result
                    /\ \A k \in DOMAIN response_cache :
                          response_cache'[k] = response_cache[k]
       /\ \A c \in Conns :
            (\/ (outcome'[c] # outcome[c] /\ outcome'[c].why
                    \in {"JSONDecodeError", "invalid", "TimeoutError", "AttributeError"})
             \/ (state[c] = "Analyzing"
                    /\ cache_key(hash_seed, get_response(message[c]),
                                 get_concept(message[c])) \in DOMAIN response_cache)
             \/ (state[c] = "Unconnected" /\ state'[c] = "Open")
             \/ (state[c] # "Closed" /\ state'[c] = "Closed"))
            => response_cache' = response_cache]_vars

\* a result was cached; the next request on the connection timed out and was
\* answered "Analysis timeout"; the connection was closed; the cache holds the
\* one entry as it was stored
C19_Witness ==
    \E c \in Conns :
        /\ Len(outbound[c]) = 2
        /\ outbound[c][1].why = "result"
        /\ outbound[c][2].body.error = "Analysis timeout"
        /\ state[c] = "Closed"
        /\ Cardinality(DOMAIN response_cache) = 1
        /\ \E k \in DOMAIN response_cache :
              response_cache[k] = outbound[c][1].body.result

\* the n-th message received on connection c has been answered on c
answered(c, n) == \E i \in 1..Len(outbound[c]) : outbound[c][i].no = n

\* C20: with the handler tasks scheduled fairly, every message received on a
\* connection is eventually followed by a reply to it on that connection or by
\* the connection being Closed; a message is answered at most once, by one of
\* the success result and the four error payloads, replies follow the order of
\* the messages, and a message whose handler is back at the receive with the
\* connection not Closed has its reply.
C20_EveryMessageAnswered ==
    /\ \A c \in Conns : \A n \in 1..MaxFrames :
          (taken[c] >= n) ~> (answered(c, n) \/ state[c] = "Closed")
    /\ [](\A c \in Conns :
            /\ \A i, j \in 1..Len(outbound[c]) :
                  i < j => outbound[c][i].no < outbound[c][j].no
            /\ \A i \in 1..Len(outbound[c]) :
                  /\ outbound[c][i].no \in 1..taken[c]
                  /\ \/ outbound[c][i].why = "result"
                     \/ outbound[c][i].body \in
                          {JsonParsingError, InvalidInput, AnalysisTimeout,
                           InternalServerError}
            /\ state[c] = "Open" => \A n \in 1..taken[c] : answered(c, n))

\* one connection got its message answered and is open; the other received a
\* message, was closed by its peer before the reply, and is Closed with no reply
C20_Witness ==
    \E c, d \in Conns :
        /\ taken[c] = 1
        /\ answered(c, 1)
        /\ state[c] = "Open"
        /\ ~peer_closed[c]
        /\ taken[d] = 1
        /\ ~answered(d, 1)
        /\ state[d] = "Closed"

====
